---- MODULE Spec2Model ----
(***************************************************************************)
(* Model of ComKra12_v2.py: comparison of two Kraken per-read outputs      *)
(* against a reference table (df1), with a persistent sqlite index of the  *)
(* first-run output and an ordered worker pool.                            *)
(*                                                                         *)
(* Representation of the data:                                             *)
(*   - a taxid / title / status is a string;                               *)
(*   - a k-mer field is the sequence of its tokens; a token is either a    *)
(*     pair <<taxid, count>> (text matched by the regex (\d+):(\d+)) or    *)
(*     SupTok, a token of superscript digits such as U+00B2 ":" U+00B2,    *)
(*     whose two sides pass str.isdigit() but are not matched by \d and    *)
(*     on which int() raises ValueError;                                   *)
(*   - a Counter is the sequence of its <<taxid, count>> items in          *)
(*     insertion order (Python dicts keep insertion order), keys distinct; *)
(*   - a line of a Kraken output is the sequence of its tab-separated      *)
(*     columns, the k-mer column being a k-mer field; <<>> is a blank line;*)
(*   - the float multiplier is a fraction <<num, den>> with den > 0.       *)
(***************************************************************************)
EXTENDS Integers, Sequences, FiniteSets, TLC

\* ------------------------------------------------------------------ bounds
\* largest count written in a k-mer token
MaxCount == 2
\* largest number of tokens in a drawn k-mer field
MaxTokens == 2
\* largest count of one key in a directly drawn composite counter
MaxComp == 3
\* number of runs of the program in one behaviour
MaxRuns == 2
\* largest --threads value
MaxThreads == 2
\* most lines of a second-run file drawn for the classification
MaxLines == 3

\* ------------------------------------------------------- strings and order
\* The taxids of the model with their characters: Python compares str
\* lexicographically by code point, so "10" < "9".
TaxidChars(t) ==
  CASE t = "0" -> <<0>>
    [] t = "10" -> <<1, 0>>
    [] t = "9" -> <<9>>
    [] OTHER -> <<>>

RECURSIVE SeqLess(_, _)
SeqLess(a, b) ==
  IF b = <<>> THEN FALSE
  ELSE IF a = <<>> THEN TRUE
  ELSE IF Head(a) # Head(b) THEN Head(a) < Head(b)
  ELSE SeqLess(Tail(a), Tail(b))

\* str.__lt__ on taxid strings
StrLess(s, t) == SeqLess(TaxidChars(s), TaxidChars(t))

Taxids == {"0", "10", "9"}
NA == "NA"

\* ---------------------------------------------------------------- counters
SupTok == <<"sup">>
IsPair(tok) == Len(tok) = 2

RECURSIVE CounterAdd(_, _, _)
\* cnt[tid] += n on a Counter: an existing key keeps its position
CounterAdd(c, tid, n) ==
  IF c = <<>> THEN << <<tid, n>> >>
  ELSE IF Head(c)[1] = tid THEN << <<tid, Head(c)[2] + n>> >> \o Tail(c)
  ELSE <<Head(c)>> \o CounterAdd(Tail(c), tid, n)

RECURSIVE CounterUpdate(_, _)
\* Counter.update(other): adds other's counts, in other's order
CounterUpdate(c, other) ==
  IF other = <<>> THEN c
  ELSE CounterUpdate(CounterAdd(c, Head(other)[1], Head(other)[2]), Tail(other))

Keys(c) == {c[i][1] : i \in 1..Len(c)}
CountOf(c, tid) ==
  IF tid \in Keys(c) THEN (CHOOSE it \in {c[i] : i \in 1..Len(c)} : it[1] = tid)[2]
  ELSE 0

ValueError == [err |-> TRUE, cnt |-> <<>>]
Parsed(c) == [err |-> FALSE, cnt |-> c]

\* parse_kmer_field: the regex pairs if there is any; otherwise the fallback
\* split, where a token passing isdigit() on both sides reaches int()
parse_kmer_field(field_text) ==
  IF field_text = <<>> THEN Parsed(<<>>)
  ELSE LET pairs == SelectSeq(field_text, IsPair) IN
       IF pairs # <<>> THEN Parsed(CounterUpdate(<<>>, pairs))
       ELSE ValueError

\* the mutant of composite_counts: c.update(c2) is forgotten
composite_counts_first(c1, c2) == CounterUpdate(<<>>, c1)

\* composite_counts: c = Counter(); c.update(c1); c.update(c2)
composite_counts(c1, c2) == CounterUpdate(CounterUpdate(<<>>, c1), c2)

\* the sort key (-count, taxid) of sorted_composite_str and final_judgement
RankBefore(a, b) == a[2] > b[2] \/ (a[2] = b[2] /\ StrLess(a[1], b[1]))

RECURSIVE InsertRanked(_, _)
InsertRanked(s, it) ==
  IF s = <<>> THEN <<it>>
  ELSE IF RankBefore(it, Head(s)) THEN <<it>> \o s
  ELSE <<Head(s)>> \o InsertRanked(Tail(s), it)

RECURSIVE SortedItems(_)
\* sorted(counter.items(), key=lambda x: (-x[1], x[0]))
SortedItems(c) ==
  IF c = <<>> THEN <<>>
  ELSE InsertRanked(SortedItems(SubSeq(c, 1, Len(c) - 1)), c[Len(c)])

\* sorted_composite_str: the ranked items ("tid:cnt" joined by ">")
sorted_composite_str(c) == SortedItems(c)

RECURSIVE InsertByCount(_, _)
\* one step of the stable sort on key -count: it goes after every item whose
\* count is at least its own
InsertByCount(s, it) ==
  IF s = <<>> THEN <<it>>
  ELSE IF it[2] > Head(s)[2] THEN <<it>> \o s
  ELSE <<Head(s)>> \o InsertByCount(Tail(s), it)

RECURSIVE StableSortByCount(_)
\* candidates.sort(key=lambda x: -x[1]): stable, ties keep insertion order
StableSortByCount(s) ==
  IF s = <<>> THEN <<>>
  ELSE InsertByCount(StableSortByCount(SubSeq(s, 1, Len(s) - 1)), s[Len(s)])

\* the mutant of determine_ref_taxid_from_out1: the sort is forgotten
determine_ref_unsorted(kmer_counter, df1_taxids_set) ==
  LET InDf1(it) == it[1] \in df1_taxids_set
      candidates == SelectSeq(kmer_counter, InDf1)
  IN IF candidates = <<>> THEN NA ELSE candidates[1][1]

\* another mutant of it: the filter on the reference table is forgotten
determine_ref_top_of_all(kmer_counter, df1_taxids_set) ==
  IF kmer_counter = <<>> THEN NA
  ELSE StableSortByCount(kmer_counter)[1][1]

determine_ref_taxid_from_out1(kmer_counter, df1_taxids_set) ==
  LET InDf1(it) == it[1] \in df1_taxids_set
      candidates == SelectSeq(kmer_counter, InDf1)
  IN IF kmer_counter = <<>> THEN NA
     ELSE IF candidates = <<>> THEN NA
     ELSE StableSortByCount(candidates)[1][1]

\* multiplier * n compared with an integer, on the fraction <<num, den>>
GeqMul(x, m, n) == x * m[2] >= m[1] * n
LtMul(x, m, n) == x * m[2] < m[1] * n

\* the rank (1-based) of tid in the ranked items, 0 when absent
RankOf(items, tid) ==
  IF \E i \in 1..Len(items) : items[i][1] = tid
  THEN CHOOSE i \in 1..Len(items) : items[i][1] = tid
  ELSE 0

\* the mutant of final_judgement: the rank-2 test is dropped
final_judgement_anyrank(composite_counter, ref_taxid, multiplier) ==
  LET items == SortedItems(composite_counter)
      ref_rank == RankOf(items, ref_taxid)
      ref_cnt == IF ref_rank = 0 THEN 0 ELSE items[ref_rank][2]
  IN IF ref_taxid = NA \/ composite_counter = <<>> THEN "F"
     ELSE IF items[1][1] = ref_taxid THEN "T"
     ELSE IF items[1][1] = "0"
       THEN IF ref_rank = 0 THEN "F"
            ELSE IF LtMul(items[1][2], multiplier, ref_cnt) THEN "T"
            ELSE "F"
     ELSE "F"

final_judgement(composite_counter, ref_taxid, multiplier) ==
  LET items == SortedItems(composite_counter)
      top_tid == items[1][1]
      top_cnt == items[1][2]
      ref_rank == RankOf(items, ref_taxid)
      ref_cnt == IF ref_rank = 0 THEN 0 ELSE items[ref_rank][2]
  IN IF ref_taxid = NA \/ composite_counter = <<>> THEN "F"
     ELSE IF top_tid = ref_taxid THEN "T"
     ELSE IF top_tid = "0"
       THEN IF ref_rank = 0 THEN "F"
            ELSE IF ref_rank = 2
                    /\ GeqMul(top_cnt, multiplier, IF ref_cnt > 0 THEN ref_cnt ELSE 1)
              THEN "F"
            ELSE IF ref_rank = 2 /\ LtMul(top_cnt, multiplier, ref_cnt) THEN "T"
            ELSE "F"
     ELSE "F"

\* ------------------------------------------------------------ file parsing
\* argparse defaults of --title-col, --taxid-col, --kmer-col (1-based)
title_col == 2
taxid_col == 3
kmer_col == 5
\* rows per executemany/commit of the index build (2000 in the source,
\* scaled to the files of the model)
batch_size == 2

\* parts[k - 1] if len(parts) >= k else default
Col(parts, k, default) == IF Len(parts) >= k THEN parts[k] ELSE default

EmptyDict == [keys |-> <<>>, vals |-> <<>>]

\* d[k] = v on a dict: a key already present keeps its position
DictSet(d, k, v) ==
  [keys |-> IF k \in DOMAIN d.vals THEN d.keys ELSE Append(d.keys, k),
   vals |-> [x \in DOMAIN d.vals \cup {k} |-> IF x = k THEN v ELSE d.vals[x]]]

RECURSIVE load_df1_lines(_, _)
\* the loop of load_df1 over the lines left; a line is its sequence of
\* whitespace-separated words (a taxid holding no blank), a species its
\* words (joined by "_")
load_df1_lines(lines, d) ==
  IF lines = <<>> THEN d
  ELSE LET parts == Head(lines) IN
       IF Len(parts) < 2 THEN load_df1_lines(Tail(lines), d)
       ELSE load_df1_lines(Tail(lines), DictSet(d, parts[1], Tail(parts)))

load_df1(file) == load_df1_lines(file, EmptyDict)

RECURSIVE parse_kraken_lines(_, _, _)
\* the loop of parse_kraken_out from line number ln on; raised when
\* parse_kmer_field raises
parse_kraken_lines(lines, ln, records) ==
  IF ln > Len(lines) THEN [raised |-> FALSE, records |-> records]
  ELSE LET parts == lines[ln]
           kmer_field == Col(parts, kmer_col, <<>>)
           kmer_counter == parse_kmer_field(kmer_field)
       IN IF parts = <<>> THEN parse_kraken_lines(lines, ln + 1, records)
          ELSE IF kmer_counter.err THEN [raised |-> TRUE, records |-> EmptyDict]
          ELSE parse_kraken_lines(lines, ln + 1,
                 DictSet(records, Col(parts, title_col, ""),
                         [status |-> parts[1],
                          taxid |-> Col(parts, taxid_col, "0"),
                          kmer_field |-> kmer_field,
                          kmer_counter |-> kmer_counter.cnt,
                          raw_line |-> parts,
                          line_no |-> ln]))

parse_kraken_out(file) == parse_kraken_lines(file, 1, EmptyDict)

\* status.startswith('C'), on the statuses of the model
StartsWithC(status) == status \in {"C"}

\* the mutant of IsAnnotated: only the status is looked at
IsAnnotatedByStatus(rec) == rec.status # "" /\ StartsWithC(rec.status)

\* the test of main's classification loop (lines 349-352)
IsAnnotated(rec) ==
  LET taxid == IF rec.taxid # "" THEN rec.taxid ELSE "0" IN
  (rec.status # "" /\ StartsWithC(rec.status)) \/ (taxid # "0" /\ taxid # NA)

RECURSIVE classify(_, _, _, _)
\* main's loop over out2_records.items() from position i on
classify(records, df1_taxids, i, acc) ==
  IF i > Len(records.keys) THEN acc
  ELSE LET title == records.keys[i]
           rec == records.vals[title]
           taxid == IF rec.taxid # "" THEN rec.taxid ELSE "0"
       IN IF IsAnnotated(rec)
          THEN classify(records, df1_taxids, i + 1,
                 [acc EXCEPT !.total_checked = @ + 1,
                             !.exist_in_df1 = @ + (IF taxid \in df1_taxids THEN 1 ELSE 0),
                             !.not_exist_in_df1 = @ + (IF taxid \in df1_taxids THEN 0 ELSE 1)])
          ELSE classify(records, df1_taxids, i + 1,
                 [acc EXCEPT !.unannotated_titles = Append(@, title)])

NoStats == [total_checked |-> 0, exist_in_df1 |-> 0, not_exist_in_df1 |-> 0,
            unannotated_titles |-> <<>>]

\* ------------------------------------------------------------ sqlite index
\* the row build_out1_sqlite_index inserts for a line
IndexRow(parts, ln) ==
  [title |-> Col(parts, title_col, ""),
   status |-> parts[1],
   taxid |-> Col(parts, taxid_col, "0"),
   kmer_field |-> Col(parts, kmer_col, <<>>),
   raw_line |-> parts,
   line_no |-> ln]

RECURSIVE InsertOrReplace(_, _)
\* executemany("INSERT OR REPLACE ..."): title is the primary key
InsertOrReplace(recs, batch) ==
  IF batch = <<>> THEN recs
  ELSE InsertOrReplace(
         [t \in DOMAIN recs \cup {Head(batch).title} |->
            IF t = Head(batch).title THEN Head(batch) ELSE recs[t]],
         Tail(batch))

NonBlank(parts) == parts # <<>>

RECURSIVE IndexRows(_, _)
\* the rows of the lines from line number ln on, blank lines skipped
IndexRows(file, ln) ==
  IF ln > Len(file) THEN <<>>
  ELSE (IF NonBlank(file[ln]) THEN <<IndexRow(file[ln], ln)>> ELSE <<>>)
       \o IndexRows(file, ln + 1)

\* the table of a build that read the whole file
FullIndex(file) == InsertOrReplace(<<>>, IndexRows(file, 1))

\* the index path: no file, or a store with table out1; src and built_in
\* record which first-run file and which run wrote it ("old": a store left
\* by a run on the earlier first-run file)
NoDb == [exists |-> FALSE, recs |-> <<>>, src |-> "none", built_in |-> 0]

\* fetch_out1_record_from_db: None, the record, or the ValueError of
\* parse_kmer_field
fetch_out1_record_from_db(db, title) ==
  IF title \notin DOMAIN db.recs THEN [raised |-> FALSE, found |-> FALSE]
  ELSE LET row == db.recs[title]
           kmer_counter == parse_kmer_field(row.kmer_field)
       IN IF kmer_counter.err THEN [raised |-> TRUE, found |-> TRUE]
          ELSE [raised |-> FALSE, found |-> TRUE,
                kmer_field |-> row.kmer_field, kmer_counter |-> kmer_counter.cnt]

NASpecies == <<"NA">>
\* --multiplier default
DefaultMultiplier == <<3, 1>>

\* main.worker: the row of a title, or the exception it raises
worker(db, records, df1_dict, multiplier, title) ==
  LET rec1 == fetch_out1_record_from_db(db, title)
      has2 == title \in DOMAIN records.vals
      out1_field == IF rec1.found THEN rec1.kmer_field ELSE <<>>
      out2_field == IF has2 THEN records.vals[title].kmer_field ELSE <<>>
      out1_counter == IF rec1.found THEN rec1.kmer_counter ELSE <<>>
      out2_counter == IF has2 THEN records.vals[title].kmer_counter ELSE <<>>
      ref_taxid == determine_ref_taxid_from_out1(out1_counter, DOMAIN df1_dict.vals)
      ref_species == IF ref_taxid # NA THEN df1_dict.vals[ref_taxid] ELSE NASpecies
      comp == composite_counts(out1_counter, out2_counter)
  IN IF rec1.raised THEN [raised |-> TRUE, row |-> <<>>]
     ELSE [raised |-> FALSE,
           row |-> <<title, out1_field, out2_field, ref_taxid, ref_species,
                     sorted_composite_str(comp),
                     final_judgement(comp, ref_taxid, multiplier)>>]

\* ------------------------------------------------------------------ state
VARIABLES
  in_df1,   \* the reference file: its lines
  in_out2,  \* the second-run file: its lines
  in_out1,  \* the first-run file: its lines
  run,      \* number of runs started
  pc,       \* where main is
  args,     \* the command line of the run: rebuild_index, threads
  exit_status, \* 0, or 1 after an uncaught exception
  err,      \* what raised: "none", "df1", "out2", "out1", "read", "worker"
  fs_out,   \* the output file <prefix>.tsv
  fs_db,    \* the index <prefix>.out1.sqlite
  out_written, \* the run has opened the output file for writing
  db0,      \* fs_db when the run started
  db_used,  \* the run has accessed the index path
  df1,      \* the loaded reference table
  out2_records, \* the parsed second-run table
  stats,    \* the classifier's counters and unannotated_titles
  build,    \* the index build: lines read, the open batch
  tasks,    \* the pool's futures, one per title
  processed, \* rows appended by this run
  jin,      \* the inputs drawn for the pure functions
  jout      \* their results, NoResult before the function is applied

invars == <<in_df1, in_out2, in_out1>>
jvars == <<jin, jout>>
runvars == <<run, pc, args, exit_status, err, fs_out, fs_db, out_written, db0, db_used,
             df1, out2_records, stats, build, tasks, processed>>
vars == <<invars, runvars, jvars>>

\* ---------------------------------------------- the pure functions applied
NoResult == [done |-> FALSE]

\* --default 3.0, and two other values of --multiplier
Multipliers == {<<3, 1>>, <<3, 2>>, <<0, 1>>}

PairToks == {<<t, n>> : t \in Taxids, n \in 1..MaxCount}
Tokens == PairToks \cup {SupTok}

SeqsUpTo(S, n) == UNION {[1..k -> S] : k \in 0..n}

\* the k-mer fields drawn
Fields == SeqsUpTo(Tokens, MaxTokens)

\* the Counters drawn directly: distinct keys, any insertion order
Composites ==
  {c \in SeqsUpTo(Taxids \X (0..MaxComp), Cardinality(Taxids)) :
     \A i, j \in 1..Len(c) : i # j => c[i][1] # c[j][1]}

\* the Counters drawn for composite_counts: at most two keys each
SmallComposites == {c \in Composites : Len(c) <= 2}

\* the same tokens in another order
Reorderings(f) ==
  {g \in [1..Len(f) -> {f[i] : i \in 1..Len(f)}] :
     \E p \in [1..Len(f) -> 1..Len(f)] :
        /\ \A i, j \in 1..Len(f) : i # j => p[i] # p[j]
        /\ \A i \in 1..Len(f) : g[i] = f[p[i]]}

\* the second-run k-mer fields drawn: empty, or one pair
Out2Fields == {<<>>} \cup {<< <<t, n>> >> : t \in {"0", "9"}, n \in 1..MaxCount}

RefSets == {{}, {"9"}, {"10", "9"}, {"0", "10", "9"}}

NoArgs == [rebuild_index |-> FALSE, threads |-> 1]
\* the index build: lines read, the open batch, the write connection open
NoBuild == [ln |-> 0, batch |-> <<>>, conn |-> FALSE]
NoFile == [exists |-> FALSE, rows |-> <<>>]

\* the program not started, no output file
RunIdle ==
  /\ run = 0 /\ pc = "idle" /\ args = NoArgs /\ exit_status = 0 /\ err = "none"
  /\ fs_out = NoFile /\ out_written = FALSE /\ db_used = FALSE
  /\ df1 = EmptyDict /\ out2_records = EmptyDict /\ stats = NoStats
  /\ build = NoBuild /\ tasks = <<>> /\ processed = 0

JInit ==
  /\ in_df1 = <<>> /\ in_out2 = <<>> /\ in_out1 = <<>>
  /\ RunIdle /\ fs_db = NoDb /\ db0 = NoDb
  /\ jout = NoResult
  /\ \/ \E c \in Composites, r \in Taxids \cup {NA}, m \in Multipliers :
          jin = [kind |-> "judge", comp |-> c, ref |-> r, mult |-> m]
     \/ \E f \in Fields, d \in RefSets, m \in {DefaultMultiplier, <<3, 2>>} :
        \E g \in Reorderings(f), f2 \in Out2Fields :
          jin = [kind |-> "title", out1 |-> f, out1p |-> g, out2 |-> f2,
                 df1 |-> d, mult |-> m]
     \/ \E c1 \in SmallComposites, c2 \in SmallComposites :
          jin = [kind |-> "composite", c1 |-> c1, c2 |-> c2]

\* final_judgement applied to the drawn composite, refTaxid and multiplier
Judge ==
  /\ jin.kind = "judge" /\ ~jout.done
  /\ jout' = [done |-> TRUE,
              verdict |-> final_judgement(jin.comp, jin.ref, jin.mult)]
  /\ UNCHANGED <<jin, invars, runvars>>

\* the judgement of one title from its two k-mer fields (worker, lines
\* 398-406), NoVerdict when parse_kmer_field raises
Verdict(out1_field, out2_field, df1_taxids, multiplier) ==
  LET p1 == parse_kmer_field(out1_field)
      p2 == parse_kmer_field(out2_field)
      ref_taxid == determine_ref_taxid_from_out1(p1.cnt, df1_taxids)
      comp == composite_counts(p1.cnt, p2.cnt)
      \* df1.get(ref_taxid, 'NA') if ref_taxid != 'NA' else 'NA', the species
      \* of taxid t in the reference table written <<"species", t>>
      ref_species == IF ref_taxid # NA
                       THEN IF ref_taxid \in df1_taxids
                              THEN <<"species", ref_taxid>> ELSE NASpecies
                       ELSE NASpecies
  IN IF p1.err \/ p2.err THEN [raised |-> TRUE]
     ELSE [raised |-> FALSE, out1_counter |-> p1.cnt, ref_taxid |-> ref_taxid,
           ref_species |-> ref_species,
           comp |-> comp, comp_str |-> sorted_composite_str(comp),
           judgement |-> final_judgement(comp, ref_taxid, multiplier)]

\* the same title judged from the two enumerations of its first-run field
Evaluate ==
  /\ jin.kind = "title" /\ ~jout.done
  /\ jout' = [done |-> TRUE,
              a |-> Verdict(jin.out1, jin.out2, jin.df1, jin.mult),
              b |-> Verdict(jin.out1p, jin.out2, jin.df1, jin.mult)]
  /\ UNCHANGED <<jin, invars, runvars>>

\* composite_counts applied to the two drawn Counters, in both orders; c1
\* and c2 are the two arguments after the calls (update is called on the
\* new Counter c only, c1 and c2 are read)
Combine ==
  /\ jin.kind = "composite" /\ ~jout.done
  /\ jout' = [done |-> TRUE,
              comp |-> composite_counts(jin.c1, jin.c2),
              rev |-> composite_counts(jin.c2, jin.c1),
              c1 |-> jin.c1, c2 |-> jin.c2]
  /\ UNCHANGED <<jin, invars, runvars>>

JNext == Judge \/ Evaluate \/ Combine

SpecJ == JInit /\ [][JNext]_vars

\* ------------------------------------------------------------ the inputs
Line(status, title, taxid, field) == <<status, title, taxid, "150", field>>

\* second-run files: (1) two unresolved titles and a classified one; (2) no
\* unresolved title (status U with a taxid counts as annotated); (3) three
\* unresolved titles, with a blank line, a line of two columns and a title
\* given twice; (4) a k-mer field on which int() raises
Out2Files ==
  { << Line("U", "r1", "0", << <<"0", 2>> >>),
       Line("U", "r2", "0", <<>>),
       Line("C", "r3", "9", << <<"9", 2>> >>) >>,
    << Line("C", "r3", "9", << <<"9", 2>> >>),
       Line("U", "r2", "10", << <<"10", 1>> >>) >>,
    << Line("U", "r2", "0", << <<"0", 1>> >>),
       <<>>,
       <<"U", "r1">>,
       Line("U", "r3", "0", << <<"0", 2>>, <<"9", 1>> >>),
       Line("U", "r2", "0", << <<"0", 2>> >>) >>,
    << Line("U", "r1", "0", <<SupTok>>) >> }

\* first-run files: (1) a record for every title; (2) the record of r2 has a
\* k-mer field on which int() raises; (3) r1 twice around a blank line, r2
\* and r3 absent
Out1Files ==
  { << Line("C", "r1", "9", << <<"9", 2>>, <<"0", 1>> >>),
       Line("C", "r2", "10", << <<"10", 1>>, <<"9", 1>> >>),
       Line("C", "r3", "9", << <<"9", 1>> >>) >>,
    << Line("C", "r1", "9", << <<"9", 2>> >>),
       Line("C", "r2", "9", <<SupTok>>),
       Line("C", "r3", "9", << <<"9", 1>> >>) >>,
    << Line("C", "r1", "9", << <<"9", 1>> >>),
       <<>>,
       Line("C", "r1", "10", << <<"10", 2>> >>) >> }

\* the first-run file of an earlier invocation, since replaced
OldOut1 == << Line("C", "r1", "10", << <<"10", 2>> >>) >>
OldDb == [exists |-> TRUE, recs |-> FullIndex(OldOut1), src |-> "old", built_in |-> 0]

\* reference files: (1) two taxids; (2) no usable line
Df1Files ==
  { << <<"9", "Gilliamella", "sp">>, <<"10", "Apis">> >>,
    << <<"9">>, <<>> >> }

Init ==
  /\ in_df1 \in Df1Files /\ in_out2 \in Out2Files /\ in_out1 \in Out1Files
  /\ RunIdle
  /\ fs_db \in {NoDb, OldDb} /\ db0 = fs_db
  /\ jin = [kind |-> "none"] /\ jout = NoResult

\* ------------------------------------------------------------------- main
Header == <<"title", "out1_kmer_info", "out2_kmer_info", "ref_taxid",
            "ref_species", "composite_kmer_counts", "final_judgement">>

\* an uncaught exception: traceback, exit status 1
Raise(e) == pc' = "error" /\ exit_status' = 1 /\ err' = e

\* the program is invoked: parse_args, threads < 1 becomes 1
StartRun ==
  /\ pc \in {"idle", "done", "error"}
  /\ run < MaxRuns
  /\ \E rb \in BOOLEAN, t \in 0..MaxThreads :
       args' = [rebuild_index |-> rb, threads |-> IF t < 1 THEN 1 ELSE t]
  /\ run' = run + 1
  /\ pc' = "load_df1"
  /\ exit_status' = 0 /\ err' = "none"
  /\ out_written' = FALSE /\ db_used' = FALSE /\ db0' = fs_db
  /\ df1' = EmptyDict /\ out2_records' = EmptyDict /\ stats' = NoStats
  /\ build' = NoBuild /\ tasks' = <<>> /\ processed' = 0
  /\ UNCHANGED <<fs_out, fs_db, invars, jvars>>

\* df1 = load_df1(args.df1): open() raises when the file is missing
LoadDf1 ==
  /\ pc = "load_df1"
  /\ \/ Raise("df1") /\ UNCHANGED df1
     \/ /\ df1' = load_df1(in_df1)
        /\ pc' = "parse_out2"
        /\ UNCHANGED <<exit_status, err>>
  /\ UNCHANGED <<run, args, fs_out, fs_db, out_written, db0, db_used,
                 out2_records, stats, build, tasks, processed, invars, jvars>>

\* out2_records = parse_kraken_out(args.out2)
ParseOut2 ==
  /\ pc = "parse_out2"
  /\ \/ Raise("out2") /\ UNCHANGED out2_records
     \/ LET r == parse_kraken_out(in_out2) IN
        IF r.raised THEN Raise("out2_value") /\ UNCHANGED out2_records
        ELSE /\ out2_records' = r.records
             /\ pc' = "classify"
             /\ UNCHANGED <<exit_status, err>>
  /\ UNCHANGED <<run, args, fs_out, fs_db, out_written, db0, db_used,
                 df1, stats, build, tasks, processed, invars, jvars>>

\* the classification loop over out2_records
Classify ==
  /\ pc = "classify"
  /\ stats' = classify(out2_records, DOMAIN df1.vals, 1, NoStats)
  /\ pc' = "header"
  /\ UNCHANGED <<run, args, exit_status, err, fs_out, fs_db, out_written, db0,
                 db_used, df1, out2_records, build, tasks, processed, invars, jvars>>

\* the mutant of ReturnsEarly: the early return is missing
ReturnsEarlyNever(unannotated_titles) == FALSE

\* if not unannotated_titles: return
ReturnsEarly(unannotated_titles) == unannotated_titles = <<>>

\* the header is written (open 'w' truncates), then the empty-worklist return
WriteHeader ==
  /\ pc = "header"
  /\ fs_out' = [exists |-> TRUE, header |-> Header, rows |-> <<>>]
  /\ out_written' = TRUE
  /\ pc' = IF ReturnsEarly(stats.unannotated_titles) THEN "done" ELSE "remove"
  /\ UNCHANGED <<run, args, exit_status, err, fs_db, db0, db_used, df1,
                 out2_records, stats, build, tasks, processed, invars, jvars>>

\* if args.rebuild_index and os.path.exists(db_path): os.remove(db_path),
\* an exception of os.remove being logged as a warning
RemoveIndex ==
  /\ pc = "remove"
  /\ IF args.rebuild_index
       THEN /\ db_used' = TRUE
            /\ IF fs_db.exists
                 THEN \/ fs_db' = NoDb
                      \/ UNCHANGED fs_db
                 ELSE UNCHANGED fs_db
       ELSE UNCHANGED <<db_used, fs_db>>
  /\ pc' = "build"
  /\ UNCHANGED <<run, args, exit_status, err, fs_out, out_written, db0, df1,
                 out2_records, stats, build, tasks, processed, invars, jvars>>

\* build_out1_sqlite_index: if os.path.exists(db_path): return
SkipsBuild(db) == db.exists

\* build_out1_sqlite_index up to open(out1_path): the existence test, or
\* connect, CREATE TABLE, commit and the open of the first-run file
BuildStart ==
  /\ pc = "build"
  /\ db_used' = TRUE
  /\ IF SkipsBuild(fs_db)
       THEN /\ pc' = "dispatch"
            /\ UNCHANGED <<fs_db, build, exit_status, err>>
       ELSE /\ fs_db' = [exists |-> TRUE, recs |-> <<>>, src |-> "cur", built_in |-> run]
            /\ build' = [NoBuild EXCEPT !.conn = TRUE]
            /\ \/ Raise("out1")
               \/ pc' = "build_read" /\ UNCHANGED <<exit_status, err>>
  /\ UNCHANGED <<run, args, fs_out, out_written, db0, df1, out2_records, stats,
                 tasks, processed, invars, jvars>>

\* one turn of the loop over the first-run file: the read raises, or the
\* line joins the batch, which is committed when it holds batch_size rows
BuildLine ==
  /\ pc = "build_read"
  /\ build.ln < Len(in_out1)
  /\ \/ Raise("read") /\ UNCHANGED <<build, fs_db>>
     \/ LET ln == build.ln + 1
            parts == in_out1[ln]
            batch == IF NonBlank(parts) THEN Append(build.batch, IndexRow(parts, ln))
                     ELSE build.batch
        IN /\ IF Len(batch) >= batch_size
                THEN /\ fs_db' = [fs_db EXCEPT !.recs = InsertOrReplace(@, batch)]
                     /\ build' = [build EXCEPT !.ln = ln, !.batch = <<>>]
                ELSE /\ build' = [build EXCEPT !.ln = ln, !.batch = batch]
                     /\ UNCHANGED fs_db
           /\ UNCHANGED <<pc, exit_status, err>>
  /\ UNCHANGED <<run, args, fs_out, out_written, db0, db_used, df1, out2_records,
                 stats, tasks, processed, invars, jvars>>

\* the mutant of BuildOver: the loop may be left before the end of file
BuildOverEarly(b, file) == TRUE

\* the for loop over the first-run file has read its last line
BuildOver(b, file) == b.ln = Len(file)

\* end of file: the last batch is committed and the connection closed
BuildFinish ==
  /\ pc = "build_read"
  /\ BuildOver(build, in_out1)
  /\ fs_db' = [fs_db EXCEPT !.recs = InsertOrReplace(@, build.batch)]
  /\ build' = [build EXCEPT !.batch = <<>>, !.conn = FALSE]
  /\ pc' = "dispatch"
  /\ UNCHANGED <<run, args, exit_status, err, fs_out, out_written, db0, db_used,
                 df1, out2_records, stats, tasks, processed, invars, jvars>>

Queued == [st |-> "queued"]

\* if args.threads == 1: the loop; else the executor, ex.map submitting a
\* future per title at once
Dispatch ==
  /\ pc = "dispatch"
  /\ IF args.threads = 1
       THEN pc' = "seq" /\ UNCHANGED tasks
       ELSE /\ pc' = "pool"
            /\ tasks' = [i \in 1..Len(stats.unannotated_titles) |-> Queued]
  /\ UNCHANGED <<run, args, exit_status, err, fs_out, fs_db, out_written, db0,
                 db_used, df1, out2_records, stats, build, processed, invars, jvars>>

WorkerOf(i) ==
  worker(fs_db, out2_records, df1, DefaultMultiplier, stats.unannotated_titles[i])

AppendRow(row) == [fs_out EXCEPT !.rows = Append(@, row)]

\* one turn of the sequential loop: row = worker(title); writer.writerow(row)
SeqStep ==
  /\ pc = "seq"
  /\ processed < Len(stats.unannotated_titles)
  /\ LET r == WorkerOf(processed + 1) IN
     IF r.raised
       THEN Raise("worker") /\ UNCHANGED <<fs_out, processed>>
       ELSE /\ fs_out' = AppendRow(r.row)
            /\ processed' = processed + 1
            /\ UNCHANGED <<pc, exit_status, err>>
  /\ UNCHANGED <<run, args, fs_db, out_written, db0, db_used, df1, out2_records,
                 stats, build, tasks, invars, jvars>>

\* the loop is over: the connection is closed, main returns
SeqDone ==
  /\ pc = "seq"
  /\ processed = Len(stats.unannotated_titles)
  /\ pc' = "done"
  /\ UNCHANGED <<run, args, exit_status, err, fs_out, fs_db, out_written, db0,
                 db_used, df1, out2_records, stats, build, tasks, processed,
                 invars, jvars>>

Running == {i \in 1..Len(tasks) : tasks[i].st = "running"}

\* a pool thread takes the oldest queued future (the work queue is FIFO and
\* there are at most max_workers threads)
TaskStart ==
  /\ pc = "pool"
  /\ Cardinality(Running) < args.threads
  /\ \E i \in 1..Len(tasks) :
       /\ tasks[i].st = "queued"
       /\ \A j \in 1..(i - 1) : tasks[j].st # "queued"
       /\ tasks' = [tasks EXCEPT ![i] = [st |-> "running"]]
  /\ UNCHANGED <<run, pc, args, exit_status, err, fs_out, fs_db, out_written,
                 db0, db_used, df1, out2_records, stats, build, processed,
                 invars, jvars>>

\* a running worker(title) returns or raises; its future holds the outcome
TaskFinish ==
  /\ pc = "pool"
  /\ \E i \in Running :
       tasks' = [tasks EXCEPT ![i] = [st |-> "done", res |-> WorkerOf(i)]]
  /\ UNCHANGED <<run, pc, args, exit_status, err, fs_out, fs_db, out_written,
                 db0, db_used, df1, out2_records, stats, build, processed,
                 invars, jvars>>

\* the mutant of NextResult: results taken as they complete (as_completed)
NextResultAsCompleted(futures, written) ==
  IF \E i \in 1..Len(futures) : futures[i].st = "done"
    THEN CHOOSE i \in 1..Len(futures) :
           /\ futures[i].st = "done"
           /\ \A j \in 1..Len(futures) : futures[j].st = "done" => j <= i
    ELSE written + 1

\* the future whose result ex.map yields next: the next in submission order
NextResult(futures, written) == written + 1

\* the future an abandoned ex.map leaves: cancelled if still queued, run to
\* its end by the executor's shutdown(wait=True) if running
Abandon(futures) ==
  [i \in 1..Len(futures) |->
     IF futures[i].st = "queued" THEN [st |-> "cancelled"]
     ELSE IF futures[i].st = "running" THEN [st |-> "done", res |-> WorkerOf(i)]
     ELSE futures[i]]

\* one turn of the loop over ex.map: the next result is written, or the
\* exception of its worker is re-raised in main
Collect ==
  /\ pc = "pool"
  /\ processed < Len(tasks)
  /\ LET i == NextResult(tasks, processed) IN
     /\ tasks[i].st = "done"
     /\ IF tasks[i].res.raised
          THEN /\ Raise("worker")
               /\ tasks' = Abandon(tasks)
               /\ UNCHANGED <<fs_out, processed>>
          ELSE /\ fs_out' = AppendRow(tasks[i].res.row)
               /\ processed' = processed + 1
               /\ tasks' = [tasks EXCEPT ![i] = [st |-> "written"]]
               /\ UNCHANGED <<pc, exit_status, err>>
  /\ UNCHANGED <<run, args, fs_db, out_written, db0, db_used, df1, out2_records,
                 stats, build, invars, jvars>>

\* every result is written: the executor shuts down, main returns
PoolDone ==
  /\ pc = "pool"
  /\ processed = Len(tasks)
  /\ pc' = "done"
  /\ UNCHANGED <<run, args, exit_status, err, fs_out, fs_db, out_written, db0,
                 db_used, df1, out2_records, stats, build, tasks, processed,
                 invars, jvars>>

Next ==
  \/ StartRun \/ LoadDf1 \/ ParseOut2 \/ Classify \/ WriteHeader
  \/ RemoveIndex \/ BuildStart \/ BuildLine \/ BuildFinish \/ Dispatch
  \/ SeqStep \/ SeqDone \/ TaskStart \/ TaskFinish \/ Collect \/ PoolDone

Spec == Init /\ [][Next]_vars

\* ------------------------------------- the classification of any small file
\* the lines drawn: the statuses and taxids the test tells apart on two
\* titles, a blank line, lines of one and of two columns, a line starting
\* with a tab (empty status) and a k-mer field on which int() raises
ClassifyLines ==
  {Line(s, t, x, <<>>) : s \in {"C", "U"}, t \in {"r1", "r2"},
                         x \in {"", "0", NA, "9"}}
    \cup {<<>>, <<"C">>, <<"U", "r1">>, Line("", "r2", "9", <<>>),
          Line("U", "r1", "0", <<SupTok>>)}

\* one run up to the end of the classification loop
ClassifyInit ==
  /\ in_df1 \in Df1Files /\ in_out2 \in SeqsUpTo(ClassifyLines, MaxLines)
  /\ in_out1 = <<>>
  /\ run = 1 /\ pc = "load_df1" /\ args = NoArgs /\ exit_status = 0
  /\ err = "none" /\ fs_out = NoFile /\ out_written = FALSE /\ db_used = FALSE
  /\ df1 = EmptyDict /\ out2_records = EmptyDict /\ stats = NoStats
  /\ build = NoBuild /\ tasks = <<>> /\ processed = 0
  /\ fs_db = NoDb /\ db0 = NoDb
  /\ jin = [kind |-> "none"] /\ jout = NoResult

ClassifyNext == LoadDf1 \/ ParseOut2 \/ Classify

SpecClassify == ClassifyInit /\ [][ClassifyNext]_vars

\* ================================================================== claims
\* The ranking stated without the sort: an item's rank is one more than the
\* number of items that go before it.
ItemsOf(c) == {c[i] : i \in 1..Len(c)}
ItemOf(c, tid) == CHOOSE it \in ItemsOf(c) : it[1] = tid
RankIn(c, tid) ==
  1 + Cardinality({it \in ItemsOf(c) : RankBefore(it, ItemOf(c, tid))})
TopOf(c) == CHOOSE it \in ItemsOf(c) : \A o \in ItemsOf(c) : o = it \/ RankBefore(it, o)

\* C3's condition for T
C3_Accepts(c, r, m) ==
  /\ r # NA
  /\ c # <<>>
  /\ \/ TopOf(c)[1] = r
     \/ /\ TopOf(c)[1] = "0"
        /\ r \in Keys(c)
        /\ RankIn(c, r) = 2
        /\ TopOf(c)[2] * m[2] < m[1] * ItemOf(c, r)[2]

\* C3: final_judgement returns T exactly when refTaxid is not "NA", the
\* composite is non-empty and either the top-ranked taxid is refTaxid, or the
\* top-ranked taxid is "0", refTaxid ranks exactly second and
\* topCount < multiplier x refCount; in every other case it returns F.
C3_FinalJudgement ==
  (jin.kind = "judge" /\ jout.done) =>
     /\ jout.verdict \in {"T", "F"}
     /\ jout.verdict = "T" <=> C3_Accepts(jin.comp, jin.ref, jin.mult)

\* C3 witness: a T reached through the "0"-on-top branch, refTaxid second
\* of three ranked taxids
C3_Witness ==
  /\ jin.kind = "judge" /\ jout.done
  /\ jout.verdict = "T"
  /\ jin.comp # <<>> /\ TopOf(jin.comp)[1] = "0" /\ jin.ref # "0"
  /\ Len(jin.comp) = 3

\* the reference taxids of a first-run counter that hold its highest count
TopRefs(c, d) ==
  {t \in Keys(c) \cap d : \A u \in Keys(c) \cap d : CountOf(c, t) >= CountOf(c, u)}

\* the first key, in enumeration order, among the tied reference taxids
FirstTopRef(c, d) ==
  IF TopRefs(c, d) = {} THEN NA
  ELSE c[CHOOSE i \in 1..Len(c) :
           /\ c[i][1] \in TopRefs(c, d)
           /\ \A j \in 1..(i - 1) : c[j][1] \notin TopRefs(c, d)][1]

SameCounts(c1, c2) ==
  Keys(c1) = Keys(c2) /\ \A t \in Keys(c1) : CountOf(c1, t) = CountOf(c2, t)

\* C4 as claimed: two first-run counters holding the same counts, whatever
\* the order of their keys, give the same refTaxid and the same verdict.
C4_OrderIndependent ==
  (jin.kind = "title" /\ jout.done /\ ~jout.a.raised) =>
     /\ jout.a.ref_taxid = jout.b.ref_taxid
     /\ jout.a.judgement = jout.b.judgement

\* C4 amended: the two enumerations hold the same counts and give the same
\* composite ranking; refTaxid is the first enumerated of the reference
\* taxids with the highest first-run count, so refTaxid and verdict agree
\* whenever at most one reference taxid holds that highest count.
C4_OrderIndependentUnlessTie ==
  (jin.kind = "title" /\ jout.done /\ ~jout.a.raised) =>
     /\ ~jout.b.raised
     /\ SameCounts(jout.a.out1_counter, jout.b.out1_counter)
     /\ jout.a.comp_str = jout.b.comp_str
     /\ jout.a.ref_taxid = FirstTopRef(jout.a.out1_counter, jin.df1)
     /\ jout.b.ref_taxid = FirstTopRef(jout.b.out1_counter, jin.df1)
     /\ Cardinality(TopRefs(jout.a.out1_counter, jin.df1)) <= 1 =>
          /\ jout.a.ref_taxid = jout.b.ref_taxid
          /\ jout.a.judgement = jout.b.judgement

\* C4 witness: two different enumerations, one reference taxid on top
C4_Witness ==
  /\ jin.kind = "title" /\ jout.done /\ ~jout.a.raised
  /\ jout.a.out1_counter # jout.b.out1_counter
  /\ Cardinality(Keys(jout.a.out1_counter) \cap jin.df1) = 2
  /\ Cardinality(TopRefs(jout.a.out1_counter, jin.df1)) = 1
  /\ jout.a.judgement = "T"

\* C12: the refTaxid of a title is a key of its first-run counter and of the
\* reference table, with the highest first-run count among such keys; it is
\* "NA" exactly when no key of the first-run counter (none at all for a
\* title without first-run record) is in the reference table, and the row
\* then has refSpecies "NA" and judgement F whatever the composite holds.
C12_RefTaxid ==
  (jin.kind = "title" /\ jout.done /\ ~jout.a.raised) =>
     LET c == jout.a.out1_counter
         ref == jout.a.ref_taxid
         cand == Keys(c) \cap jin.df1
     IN /\ (ref = NA) <=> (cand = {})
        /\ ref # NA =>
              /\ ref \in cand
              /\ \A t \in cand : CountOf(c, t) <= CountOf(c, ref)
              /\ jout.a.ref_species # NASpecies
        /\ ref = NA =>
              /\ jout.a.ref_species = NASpecies
              /\ jout.a.judgement = "F"

\* C12 witness: the first-run counter has keys, none in a non-empty
\* reference table, and the composite ranks a reference taxid first
C12_Witness ==
  /\ jin.kind = "title" /\ jout.done /\ ~jout.a.raised
  /\ jout.a.out1_counter # <<>> /\ jin.df1 # {}
  /\ jout.a.ref_taxid = NA
  /\ jout.a.comp # <<>> /\ jout.a.comp_str[1][1] \in jin.df1

\* C14: the composite is the element-wise sum of the two counters: its keys
\* are the keys of either, each once, a key's count is count1 + count2 (a
\* missing key counting 0), the counters taken in the other order give the
\* same counts and the same ranked string, and the two arguments are what
\* they were.
C14_ElementwiseSum ==
  (jin.kind = "composite" /\ jout.done) =>
     /\ Keys(jout.comp) = Keys(jin.c1) \cup Keys(jin.c2)
     /\ Len(jout.comp) = Cardinality(Keys(jout.comp))
     /\ \A t \in Taxids :
           CountOf(jout.comp, t) = CountOf(jin.c1, t) + CountOf(jin.c2, t)
     /\ SameCounts(jout.comp, jout.rev)
     /\ sorted_composite_str(jout.comp) = sorted_composite_str(jout.rev)
     /\ jout.c1 = jin.c1 /\ jout.c2 = jin.c2

\* C14 witness: the counters share a key and each has a key of its own, so
\* the two orders enumerate the composite differently
C14_Witness ==
  /\ jin.kind = "composite" /\ jout.done
  /\ Keys(jin.c1) \cap Keys(jin.c2) # {}
  /\ Keys(jin.c1) \ Keys(jin.c2) # {} /\ Keys(jin.c2) \ Keys(jin.c1) # {}
  /\ jout.comp # jout.rev
  /\ \E t \in Keys(jin.c1) \cap Keys(jin.c2) :
        CountOf(jin.c1, t) > 0 /\ CountOf(jin.c2, t) > 0

\* ------------------------------------------------- claims about the run
Worklist == stats.unannotated_titles
DataRows == fs_out.rows

\* main has reached the processing of the worklist in this run
InWork == pc \in {"seq", "pool"}
EndedInWork ==
  \/ pc = "done" /\ Worklist # <<>>
  \/ pc = "error" /\ err = "worker"

RECURSIVE RowsFrom(_, _)
\* the rows the loop of one worker appends from title i on over index db: it
\* stops at the first worker that raises
RowsFrom(db, i) ==
  IF i > Len(Worklist) THEN <<>>
  ELSE LET r == worker(db, out2_records, df1, DefaultMultiplier, Worklist[i]) IN
       IF r.raised THEN <<>> ELSE <<r.row>> \o RowsFrom(db, i + 1)

\* C1: for every worker count and every order in which the tasks finish, the
\* data rows are in worklist order (row k is the row of the k-th title), and
\* the file a run leaves is the file the loop of one worker writes on the
\* same inputs.
C1_WorklistOrder ==
  /\ (InWork \/ EndedInWork) =>
       /\ Len(DataRows) <= Len(Worklist)
       /\ \A k \in 1..Len(DataRows) :
            /\ DataRows[k][1] = Worklist[k]
            /\ DataRows[k] = WorkerOf(k).row
  /\ EndedInWork => DataRows = RowsFrom(fs_db, 1)

\* C1 witness: three titles on two threads, the first row written, the third
\* task finished while the second still runs
C1_Witness ==
  /\ pc = "pool" /\ args.threads = 2 /\ Len(tasks) = 3
  /\ processed = 1 /\ Len(DataRows) = 1
  /\ tasks[2].st = "running" /\ tasks[3].st = "done"

\* C2 as claimed: when the run ends after processing its worklist (main
\* returned, or a worker raised), the titles of the data rows are the
\* worklist titles, each once.
C2_OneRowPerTitle ==
  EndedInWork =>
     /\ Len(DataRows) = Len(Worklist)
     /\ \A k \in 1..Len(DataRows) : DataRows[k][1] = Worklist[k]
     /\ \A j, k \in 1..Len(DataRows) : j # k => DataRows[j][1] # DataRows[k][1]

\* C5 as claimed: when a missing reference, second-run or first-run file
\* ends the run, the run has written neither the output file nor the index.
C5_FatalBeforeOutput ==
  (pc = "error" /\ err \in {"df1", "out2", "out1"}) =>
     /\ exit_status # 0
     /\ ~out_written
     /\ fs_db = db0

\* C6 as claimed: a failing worker aborts the run with an error and the run
\* does not leave an output file with fewer data rows than worklist entries
\* (the file has no way to be marked incomplete: it must be gone).
C6_NoShortOutput ==
  (pc \in {"done", "error"} /\ err = "worker") =>
     /\ pc = "error" /\ exit_status # 0
     /\ ~(fs_out.exists /\ Len(DataRows) < Len(Worklist))

\* the rows of a run that rebuilds the index from the first-run file
RebuiltDb == [exists |-> TRUE, recs |-> FullIndex(in_out1), src |-> "cur", built_in |-> run]

\* C7 as claimed: a run that completes on a store created from the current
\* first-run file, by this run or by an earlier one however that ended,
\* writes the rows a run that rebuilds the index writes.
C7_RebuildEqualsReuse ==
  (pc = "done" /\ Worklist # <<>> /\ fs_db.src = "cur") =>
     DataRows = RowsFrom(RebuiltDb, 1)

\* the build is over and the workers read, or have read, the index
AfterBuild == pc \in {"dispatch", "seq", "pool"} \/ EndedInWork

\* C8 as claimed: with a store present and no force-rebuild the store is left
\* unchanged; with force-rebuild the index the workers read is the one built
\* in this run from the current first-run file.
C8_BuildPolicy ==
  AfterBuild =>
     /\ (db0.exists /\ ~args.rebuild_index) => fs_db = db0
     /\ args.rebuild_index =>
          /\ fs_db.built_in = run
          /\ fs_db.recs = FullIndex(in_out1)

\* C9 as claimed: a reference file that yields no entry aborts the run before
\* anything is classified, built or written.
C9_EmptyReferenceFatal ==
  (run >= 1 /\ load_df1(in_df1) = EmptyDict) =>
     /\ pc \in {"load_df1", "error"}
     /\ pc = "error" => exit_status # 0
     /\ stats = NoStats /\ ~out_written /\ fs_db = db0

\* C10: the index is built or reused only for a non-empty worklist: a run
\* whose worklist is empty ends with the header as the whole output file and
\* has not created, deleted or accessed the index path, force-rebuild or not.
C10_LazyIndex ==
  /\ (pc = "done" /\ Worklist = <<>>) =>
       /\ exit_status = 0
       /\ fs_out = [exists |-> TRUE, header |-> Header, rows |-> <<>>]
       /\ fs_db = db0
       /\ ~db_used
  /\ (db_used \/ pc \in {"remove", "build", "build_read", "dispatch", "seq", "pool"}) =>
       Worklist # <<>>

\* C10 witness: an empty worklist, force-rebuild set and a store on disk
C10_Witness ==
  /\ pc = "done" /\ Worklist = <<>> /\ out2_records.keys # <<>>
  /\ args.rebuild_index /\ db0.exists /\ fs_db.exists

\* C11: the index build is over (last batch committed, write connection
\* closed, every line of the first-run file indexed) before a worker reads:
\* while the worklist is processed no build is open, and no step of that
\* phase changes the index, the worklist or the second-run table.
C11_BuildBeforeWorkers ==
  /\ [](InWork =>
          /\ ~build.conn /\ build.batch = <<>>
          /\ fs_db.exists
          /\ fs_db.built_in = run => fs_db.recs = FullIndex(in_out1))
  /\ [](Running # {} => pc = "pool")
  /\ [][InWork =>
          /\ fs_db' = fs_db
          /\ stats' = stats
          /\ out2_records' = out2_records]_vars

\* C11 witness: two workers read the index this run has built
C11_Witness ==
  /\ pc = "pool" /\ Cardinality(Running) = 2
  /\ fs_db.built_in = run /\ fs_db.recs # <<>>

\* the titles of a second-run file, the last and the first line of a title
Out2Titles ==
  {Col(in_out2[i], title_col, "") : i \in {k \in 1..Len(in_out2) : in_out2[k] # <<>>}}
LinesOf(t) ==
  {i \in 1..Len(in_out2) : in_out2[i] # <<>> /\ Col(in_out2[i], title_col, "") = t}
LastLineOf(t) == in_out2[CHOOSE i \in LinesOf(t) : \A k \in LinesOf(t) : k <= i]
FirstAt(t) == CHOOSE i \in LinesOf(t) : \A k \in LinesOf(t) : i <= k
\* the taxid the title is looked up with: an absent or empty column is "0"
TaxidOfTitle(t) ==
  LET x == Col(LastLineOf(t), taxid_col, "0") IN IF x = "" THEN "0" ELSE x
\* the title is classified: status C, or a taxid that is not "0" or "NA"
Classified(t) ==
  LastLineOf(t)[1] = "C" \/ TaxidOfTitle(t) \notin {"0", NA}

\* C13: after the classification every distinct title of the second-run
\* file is in exactly one group: counted in total_checked (as present or
\* absent in the reference table) when its status is C or its taxid is
\* none of empty, "0", "NA", and in the worklist otherwise; the worklist
\* holds each such title once, in the order the titles are first met, and
\* total_checked = present + absent, total_checked + worklist length =
\* number of distinct titles.
C13_ClassifierPartition ==
  pc = "header" =>
    /\ \A k \in 1..Len(Worklist) :
          Worklist[k] \in Out2Titles /\ ~Classified(Worklist[k])
    /\ \A t \in Out2Titles :
          ~Classified(t) => \E k \in 1..Len(Worklist) : Worklist[k] = t
    /\ \A j, k \in 1..Len(Worklist) :
          j < k => FirstAt(Worklist[j]) < FirstAt(Worklist[k])
    /\ stats.exist_in_df1 =
          Cardinality({t \in Out2Titles :
             Classified(t) /\ TaxidOfTitle(t) \in DOMAIN df1.vals})
    /\ stats.not_exist_in_df1 =
          Cardinality({t \in Out2Titles :
             Classified(t) /\ TaxidOfTitle(t) \notin DOMAIN df1.vals})
    /\ stats.total_checked = stats.exist_in_df1 + stats.not_exist_in_df1
    /\ stats.total_checked + Len(Worklist) = Cardinality(Out2Titles)

\* C13 witness: a title met first on a classified line and last on an
\* unresolved one is in the worklist, another title is present in the
\* reference table
C13_Witness ==
  /\ pc = "header" /\ stats.exist_in_df1 = 1 /\ Len(Worklist) = 1
  /\ Cardinality(LinesOf(Worklist[1])) = 2
  /\ in_out2[FirstAt(Worklist[1])][1] = "C"

\* C15: whenever a store built from the first-run file exists at the index
\* path and no build is reading the file (after a build that ended with an
\* error and at the start of a later run too), it holds, for every distinct
\* title of the first-run file, the record of that title's last line.
C15_StoreComplete ==
  (fs_db.exists /\ fs_db.src = "cur" /\ pc # "build_read") =>
     fs_db.recs = FullIndex(in_out1)

====
